---- MODULE Spec2Model ----
(***************************************************************************)
(* Model of scripts/issue_to_feishu_ids.py: the alias normalizer, the      *)
(* markdown section extractor, the field builder, the record locator and   *)
(* the upsert executor, with the remote Bitable table as the shared store. *)
(*                                                                         *)
(* A Python str is a finite sequence of characters.  A character is a      *)
(* TLA+ string naming one code point: an ASCII character is itself, a CJK  *)
(* character is written by its pinyin (biao ti = the two characters of the *)
(* title field name), a fullwidth parenthesis is lparen / rparen.          *)
(* Case mapping is modelled for the 26 ASCII letters; every other          *)
(* character is caseless.                                                  *)
(***************************************************************************)
EXTENDS Integers, Sequences, FiniteSets, TLC

VARIABLES
  \* --- pure-function harness (SpecNorm, SpecBuild, SpecMd) ---
  fn,        \* name of the function under test
  input,     \* its argument(s)
  expect,    \* what the documentation promises for this input (ghost)
  output,    \* its return value
  output2,   \* the return value of the second application (norm only)
  phase,     \* "call" | "returned" | "again"
  \* --- upsert against the remote store (Spec) ---
  store,     \* remote table: sequence of records [id, fields]
  pc,        \* per invocation: "idle" | "search" | "write" | "done" | "failed"
  fields,    \* per invocation: the field set upsert was called with
  recId,     \* per invocation: what search_record returned
  calls,     \* per invocation: remote calls issued so far, in order
  resp,      \* per invocation: kinds of the responses received, in order
  result,    \* per invocation: "none" | "ok" | "ValueError" | "RuntimeError" | "Exception"
  runs,      \* number of invocations started so far
  history    \* ghost: [overlapped, faulty, writes]

pureVars == <<fn, input, expect, output, output2, phase>>
upsertVars == <<store, pc, fields, recId, calls, resp, result, runs, history>>
vars == <<fn, input, expect, output, output2, phase,
          store, pc, fields, recId, calls, resp, result, runs, history>>

\* Python's None: a value different from every str of the model.
None == <<"None">>

\* Truthiness of an Optional[str]: None and "" are falsy.
Truthy(v) == v # None /\ v # << >>

\* A dict is a function from its keys.  {} is the empty function; NoneDict
\* stands for None where a dict is expected (its one key is no str).
EmptyDict == [k \in {} |-> << >>]
NoneDict == [k \in {None} |-> << >>]

\* Truthiness of an Optional[dict]: None and {} are falsy.
TruthyDict(d) == d # NoneDict /\ DOMAIN d # {}

(***************************************************************************)
(* Characters and the str methods the program uses                         *)
(***************************************************************************)
\* str.strip() and the regex class \s: the whitespace characters.
WS == {" ", "\t", "\n"}

Lowers == <<"a","b","c","d","e","f","g","h","i","j","k","l","m",
            "n","o","p","q","r","s","t","u","v","w","x","y","z">>
Uppers == <<"A","B","C","D","E","F","G","H","I","J","K","L","M",
            "N","O","P","Q","R","S","T","U","V","W","X","Y","Z">>

UpperChar(c) ==
  IF \E i \in 1..26 : Lowers[i] = c
  THEN Uppers[CHOOSE i \in 1..26 : Lowers[i] = c] ELSE c

LowerChar(c) ==
  IF \E i \in 1..26 : Uppers[i] = c
  THEN Lowers[CHOOSE i \in 1..26 : Uppers[i] = c] ELSE c

\* str.upper()
upper(s) == [i \in 1..Len(s) |-> UpperChar(s[i])]

\* str.lower()
lower(s) == [i \in 1..Len(s) |-> LowerChar(s[i])]

\* str.capitalize(): first character upper-cased, the rest lower-cased.
capitalize(s) ==
  [i \in 1..Len(s) |-> IF i = 1 THEN UpperChar(s[i]) ELSE LowerChar(s[i])]

\* str.strip(): drop the leading and the trailing whitespace.
strip(s) ==
  LET ix == {i \in 1..Len(s) : s[i] \notin WS}
  IN IF ix = {} THEN << >>
     ELSE LET lo == CHOOSE i \in ix : \A j \in ix : i <= j
              hi == CHOOSE i \in ix : \A j \in ix : i >= j
          IN SubSeq(s, lo, hi)

\* dict.get(k, default)
DictGet(d, k, default) == IF k \in DOMAIN d THEN d[k] ELSE default

(***************************************************************************)
(* Field names and alias tables                                            *)
(***************************************************************************)
F_TITLE == <<"biao","ti">>
F_URL == <<"I","s","s","u","e","U","R","L">>
F_PRI == <<"you","xian1","ji">>
F_TYPE == <<"xu","qiu","lei","xing">>
F_BUGSRC == <<"b","u","g","lai","yuan","lparen","ke","xuan","rparen">>
\* the secondary title key of build_from_inputs ("Issue" + title)
F_ISSUE_TITLE == <<"I","s","s","u","e","biao","ti">>

\* FN: the allow-list, as the set of its five names.
FN == {F_TITLE, F_URL, F_PRI, F_TYPE, F_BUGSRC}

P0 == <<"P","0">>
P1 == <<"P","1">>
P2 == <<"P","2">>
P3 == <<"P","3">>

PRIORITY_ALIASES ==
  (P0 :> P0) @@ (<<"0">> :> P0) @@ (<<"H","I","G","H">> :> P0) @@ (<<"H">> :> P0) @@
  (P1 :> P1) @@ (<<"1">> :> P1) @@ (<<"M","E","D","I","U","M">> :> P1) @@ (<<"M">> :> P1) @@
  (P2 :> P2) @@ (<<"2">> :> P2) @@ (<<"L","O","W">> :> P2) @@ (<<"L">> :> P2) @@
  (P3 :> P3) @@ (<<"3">> :> P3)

T_BUG == <<"B","U","G">>
T_FEATURE == <<"F","e","a","t","u","r","e">>
T_ENHANCEMENT == <<"E","n","h","a","n","c","e","m","e","n","t">>

TYPE_ALIASES ==
  (<<"b","u","g">> :> T_BUG) @@ (<<"que","xian4">> :> T_BUG) @@
  (<<"f","e","a","t","u","r","e">> :> T_FEATURE) @@
  (<<"xin","gong","neng">> :> T_FEATURE) @@
  (<<"e","n","h","a","n","c","e","m","e","n","t">> :> T_ENHANCEMENT) @@
  (<<"you","hua">> :> T_ENHANCEMENT) @@
  (<<"i","m","p","r","o","v","e","m","e","n","t">> :> T_ENHANCEMENT)

(***************************************************************************)
(* Alias normalizer                                                        *)
(***************************************************************************)
\* A plausible slip: the lookup key is not case-folded.
norm_pri_nofold(v) ==
  IF ~Truthy(v) THEN None
  ELSE DictGet(PRIORITY_ALIASES, strip(v), strip(v))

norm_pri(v) ==
  IF ~Truthy(v) THEN None
  ELSE LET s == upper(strip(v))
       IN DictGet(PRIORITY_ALIASES, s, strip(v))

norm_type(v) ==
  IF ~Truthy(v) THEN None
  ELSE LET s == lower(strip(v))
       IN DictGet(TYPE_ALIASES, s, capitalize(strip(v)))

(***************************************************************************)
(* Markdown section extractor.  The pattern of parse_md,                   *)
(*   (^|\n)#{2,3}\s*([^\n#]+?)\s*\n([\s\S]*?)(?=\n#{2,3}\s|$)              *)
(* is compiled without flags: ^ matches at offset 0 only and $ matches at  *)
(* the end of the text or before a newline that ends the text.  Offsets    *)
(* count the characters consumed: the character at offset p is s[p + 1].   *)
(***************************************************************************)
\* The character at offset p, or "" past the end.
At(s, p) == IF p >= 0 /\ p < Len(s) THEN s[p + 1] ELSE ""

\* Length of the longest run of characters of C starting at offset p.
RunLen(s, p, C) ==
  LET stops == {q \in p..Len(s) : At(s, q) \notin C}
  IN (CHOOSE q \in stops : \A r \in stops : q <= r) - p

\* The lookahead (?=\n#{2,3}\s|$) at offset q.
Lookahead(s, q) ==
  \/ /\ At(s, q) = "\n"
     /\ At(s, q + 1) = "#" /\ At(s, q + 2) = "#"
     /\ \/ At(s, q + 3) \in WS
        \/ At(s, q + 3) = "#" /\ At(s, q + 4) \in WS
  \/ q = Len(s)
  \/ q = Len(s) - 1 /\ At(s, q) = "\n"

\* Length of the longest run of heading-text characters [^\n#] from offset p.
TextRunLen(s, p) ==
  LET stops == {q \in p..Len(s) : At(s, q) \in {"\n", "#", ""}}
  IN (CHOOSE q \in stops : \A r \in stops : q <= r) - p

\* The heading part \s*([^\n#]+?)\s*\n from offset p: the triples
\* <<w1, len, w2>> (first whitespace run, heading text, second run) that match.
HeadingSplits(s, p) ==
  UNION {UNION {{<<w1, len, w2>> :
                   w2 \in {w \in 0..RunLen(s, p + w1 + len, WS) :
                             At(s, p + w1 + len + w) = "\n"}} :
                len \in 1..TextRunLen(s, p + w1)} :
         w1 \in 0..RunLen(s, p, WS)}

\* The split the backtracking search finds first: \s* is greedy (longest
\* first), [^\n#]+? is lazy (shortest first), the second \s* is greedy.
FirstSplit(S) ==
  CHOOSE t \in S : \A u \in S :
    \/ t[1] > u[1]
    \/ t[1] = u[1] /\ t[2] < u[2]
    \/ t[1] = u[1] /\ t[2] = u[2] /\ t[3] >= u[3]

NoMatch == [ok |-> FALSE, k |-> << >>, v |-> << >>, end |-> 0]

\* One attempt of the pattern at offset i: groups 2 and 3 and the end offset.
MatchAt(s, i) ==
  LET p1 == IF i = 0 /\ At(s, 0) = "#" THEN 0
            ELSE IF At(s, i) = "\n" THEN i + 1 ELSE -1
      h == RunLen(s, p1, {"#"})
  IN IF p1 < 0 \/ h \notin {2, 3} THEN NoMatch
     ELSE LET S == HeadingSplits(s, p1 + h)
          IN IF S = {} THEN NoMatch
             ELSE LET t == FirstSplit(S)
                      a == p1 + h + t[1]
                      b == a + t[2]
                      c == b + t[3] + 1
                      ends == {q \in c..Len(s) : Lookahead(s, q)}
                      e == CHOOSE q \in ends : \A r \in ends : q <= r
                  IN [ok |-> TRUE, k |-> SubSeq(s, a + 1, b),
                      v |-> SubSeq(s, c + 1, e), end |-> e]

\* pat.finditer(md): the non-overlapping matches, scanning from the left.
RECURSIVE FindIter(_, _)
FindIter(s, i) ==
  IF i > Len(s) THEN << >>
  ELSE LET m == MatchAt(s, i)
       IN IF m.ok THEN <<m>> \o FindIter(s, m.end)
          ELSE FindIter(s, i + 1)

\* out[k] = v
DictSet(d, k, v) == [x \in DOMAIN d \cup {k} |-> IF x = k THEN v ELSE d[x]]

RECURSIVE StoreSections(_, _)
StoreSections(ms, out) ==
  IF ms = << >> THEN out
  ELSE LET k == strip(Head(ms).k)
           v == strip(Head(ms).v)
       IN StoreSections(Tail(ms), IF k # << >> THEN DictSet(out, k, v) ELSE out)

parse_md(md) ==
  IF md = << >> THEN EmptyDict
  ELSE StoreSections(FindIter(md, 0), EmptyDict)

(***************************************************************************)
(* Field builder                                                           *)
(***************************************************************************)
\* x or y, for an Optional[str] x
OrElse(x, y) == IF Truthy(x) THEN x ELSE y

\* x or y, for an Optional[dict] x
OrElseDict(x, y) == IF TruthyDict(x) THEN x ELSE y

\* {k: v for k, v in fields.items() if k in FN}
KeepFN(d) == [k \in DOMAIN d \cap FN |-> d[k]]

\* if v: fields[k] = v
SetIfTruthy(d, k, v) == IF Truthy(v) THEN DictSet(d, k, v) ELSE d

\* keys of the GitHub event object
K_ISSUE == <<"i","s","s","u","e">>
K_BODY == <<"b","o","d","y">>
K_TITLE == <<"t","i","t","l","e">>
K_HTML_URL == <<"h","t","m","l","_","u","r","l">>

\* A plausible slip: the optional single-select fields are stored without
\* the emptiness test.
build_from_issue_unguarded(evt) ==
  LET issue == OrElseDict(DictGet(OrElseDict(evt, EmptyDict), K_ISSUE, NoneDict), EmptyDict)
      body == OrElse(DictGet(issue, K_BODY, None), << >>)
      md == parse_md(body)
      title_md == strip(OrElse(DictGet(md, F_TITLE, None), << >>))
      f1 == DictSet(EmptyDict, F_TITLE,
                    OrElse(title_md, OrElse(DictGet(issue, K_TITLE, None), << >>)))
      f2 == IF Truthy(DictGet(issue, K_HTML_URL, None))
            THEN DictSet(f1, F_URL, issue[K_HTML_URL]) ELSE f1
      f3 == DictSet(f2, F_PRI, norm_pri(DictGet(md, F_PRI, << >>)))
      f4 == DictSet(f3, F_TYPE, norm_type(DictGet(md, F_TYPE, << >>)))
      f5 == DictSet(f4, F_BUGSRC, strip(OrElse(DictGet(md, F_BUGSRC, None), << >>)))
  IN KeepFN(f5)

build_from_issue(evt) ==
  LET issue == OrElseDict(DictGet(OrElseDict(evt, EmptyDict), K_ISSUE, NoneDict), EmptyDict)
      body == OrElse(DictGet(issue, K_BODY, None), << >>)
      md == parse_md(body)
      title_md == strip(OrElse(DictGet(md, F_TITLE, None), << >>))
      f1 == DictSet(EmptyDict, F_TITLE,
                    OrElse(title_md, OrElse(DictGet(issue, K_TITLE, None), << >>)))
      f2 == IF Truthy(DictGet(issue, K_HTML_URL, None))
            THEN DictSet(f1, F_URL, issue[K_HTML_URL]) ELSE f1
      pri == norm_pri(DictGet(md, F_PRI, << >>))
      f3 == SetIfTruthy(f2, F_PRI, pri)
      typ == norm_type(DictGet(md, F_TYPE, << >>))
      f4 == SetIfTruthy(f3, F_TYPE, typ)
      bug_src == strip(OrElse(DictGet(md, F_BUGSRC, None), << >>))
      f5 == SetIfTruthy(f4, F_BUGSRC, bug_src)
  IN KeepFN(f5)

\* A plausible slip: the bug-source field is forgotten.
build_from_inputs_nobugsrc(inputs, issue_url) ==
  LET f1 == DictSet(EmptyDict, F_TITLE,
                    OrElse(strip(DictGet(inputs, F_TITLE, << >>)),
                           strip(DictGet(inputs, F_ISSUE_TITLE, << >>))))
      f2 == DictSet(f1, F_URL, strip(issue_url))
      f3 == SetIfTruthy(f2, F_PRI, norm_pri(DictGet(inputs, F_PRI, << >>)))
      f4 == SetIfTruthy(f3, F_TYPE, norm_type(DictGet(inputs, F_TYPE, << >>)))
  IN KeepFN(f4)

build_from_inputs(inputs, issue_url) ==
  LET f1 == DictSet(EmptyDict, F_TITLE,
                    OrElse(strip(DictGet(inputs, F_TITLE, << >>)),
                           strip(DictGet(inputs, F_ISSUE_TITLE, << >>))))
      f2 == DictSet(f1, F_URL, strip(issue_url))
      pri == norm_pri(DictGet(inputs, F_PRI, << >>))
      f3 == SetIfTruthy(f2, F_PRI, pri)
      typ == norm_type(DictGet(inputs, F_TYPE, << >>))
      f4 == SetIfTruthy(f3, F_TYPE, typ)
      bug_src == strip(OrElse(DictGet(inputs, F_BUGSRC, None), << >>))
      f5 == SetIfTruthy(f4, F_BUGSRC, bug_src)
  IN KeepFN(f5)

(***************************************************************************)
(* Harness for the alias normalizer: one call, then a second call on the   *)
(* value the first one returned.                                           *)
(***************************************************************************)
\* Bounds of the inputs: the length of a whitespace pad, the length of a
\* free-form token, and the number of letters whose case departs from an
\* all-lower or an all-upper spelling.
MaxPad == 1
MaxLen == 3
MaxFlip == 1

\* Characters of the free-form tokens.
NormAlphabet == {" ", "p", "P", "0", "x", "#"}

RECURSIVE StringsUpTo(_, _)
StringsUpTo(A, n) ==
  IF n = 0 THEN {<< >>}
  ELSE LET shorter == StringsUpTo(A, n - 1)
       IN shorter \cup {Append(s, c) : s \in {t \in shorter : Len(t) = n - 1}, c \in A}

\* A run of 0..MaxPad copies of one whitespace character.
Pads == {[i \in 1..n |-> c] : n \in 0..MaxPad, c \in WS}

\* The token t with the letters at the positions in U upper-cased and the
\* other letters lower-cased.
CaseVariant(t, U) ==
  [i \in 1..Len(t) |-> IF i \in U THEN UpperChar(t[i]) ELSE LowerChar(t[i])]

\* The case masks of a token of n characters.
CaseMasks(n) ==
  {U \in SUBSET (1..n) : Cardinality(U) <= MaxFlip \/ n - Cardinality(U) <= MaxFlip}

\* The spellings of the alias table d's keys (letter case varied, padded
\* with whitespace), each with the canonical value documented for the key.
AliasCases(d) ==
  UNION {{[x |-> l \o CaseVariant(k, U) \o r, e |-> d[k]] :
            U \in CaseMasks(Len(k)), l \in Pads, r \in Pads} : k \in DOMAIN d}

\* Free-form tokens: nothing is documented beyond pass-through.
FreeCases == {[x |-> s, e |-> None] : s \in StringsUpTo(NormAlphabet, MaxLen)}

UpsertIdle ==
  /\ store = << >>
  /\ pc = << >>
  /\ fields = << >>
  /\ recId = << >>
  /\ calls = << >>
  /\ resp = << >>
  /\ result = << >>
  /\ runs = 0
  /\ history = << >>

InitNorm ==
  /\ fn \in {"norm_pri", "norm_type"}
  /\ \E c \in (IF fn = "norm_pri" THEN AliasCases(PRIORITY_ALIASES)
               ELSE AliasCases(TYPE_ALIASES)) \cup FreeCases :
        input = c.x /\ expect = c.e
  /\ output = None
  /\ output2 = None
  /\ phase = "call"
  /\ UpsertIdle

CallNormPri ==
  /\ fn = "norm_pri" /\ phase = "call"
  /\ output' = norm_pri(input)
  /\ phase' = "returned"
  /\ UNCHANGED <<fn, input, expect, output2>>
  /\ UNCHANGED upsertVars

CallNormType ==
  /\ fn = "norm_type" /\ phase = "call"
  /\ output' = norm_type(input)
  /\ phase' = "returned"
  /\ UNCHANGED <<fn, input, expect, output2>>
  /\ UNCHANGED upsertVars

AgainNormPri ==
  /\ fn = "norm_pri" /\ phase = "returned"
  /\ output2' = norm_pri(output)
  /\ phase' = "again"
  /\ UNCHANGED <<fn, input, expect, output>>
  /\ UNCHANGED upsertVars

AgainNormType ==
  /\ fn = "norm_type" /\ phase = "returned"
  /\ output2' = norm_type(output)
  /\ phase' = "again"
  /\ UNCHANGED <<fn, input, expect, output>>
  /\ UNCHANGED upsertVars

NextNorm == CallNormPri \/ CallNormType \/ AgainNormPri \/ AgainNormType

SpecNorm == InitNorm /\ [][NextNorm]_vars

IsBlank(s) == \A i \in 1..Len(s) : s[i] \in WS

\* C8 (as stated): every known alias spelling normalizes to its documented
\* canonical value, and for EVERY non-empty input x the second
\* normalization returns the first result unchanged, norm(norm(x)) = norm(x).
C8_IdempotentEveryNonEmpty ==
  /\ (phase # "call" /\ expect # None) => output = expect
  /\ (phase = "again" /\ input # << >>) => output2 = output

\* C8 (amended): every known alias spelling normalizes to its documented
\* canonical value, and for every input x that is not made of whitespace
\* only, norm(norm(x)) = norm(x).
C8_CanonicalAndIdempotent ==
  /\ (phase # "call" /\ expect # None) => output = expect
  /\ (phase = "again" /\ ~IsBlank(input)) => output2 = output

\* C8 witness: a padded, mixed-case type alias went through both calls.
C8_Witness ==
  /\ fn = "norm_type" /\ phase = "again"
  /\ expect = T_ENHANCEMENT
  /\ Len(input) > 11 /\ input[1] \in WS
  /\ input # lower(input) /\ input # upper(input)
  /\ output = T_ENHANCEMENT /\ output2 = T_ENHANCEMENT

(***************************************************************************)
(* Harness for the markdown section extractor: documents are built from    *)
(* lines whose kind is known (a level-2 or level-3 heading line, or a line *)
(* of body text), so that the section rule can be evaluated on the lines.  *)
(***************************************************************************)
\* Bound: the number of lines of a document.
MaxLines == 3

HeadingLine(hashes, text) ==
  [heading |-> TRUE, text |-> text, raw |-> hashes \o <<" ">> \o text]

BodyLine(text) == [heading |-> FALSE, text |-> text, raw |-> text]

LineShapes ==
  {HeadingLine(<<"#","#">>, <<"a">>), HeadingLine(<<"#","#","#">>, <<"b">>),
   BodyLine(<<"x">>), BodyLine(<<" ","y">>), BodyLine(<< >>)}

\* The lines joined by newlines.
RECURSIVE JoinLines(_)
JoinLines(ls) ==
  IF ls = << >> THEN << >>
  ELSE IF Len(ls) = 1 THEN ls[1].raw
  ELSE ls[1].raw \o <<"\n">> \o JoinLines(Tail(ls))

\* The section rule, on the lines: a heading line opens a section keyed by
\* its trimmed text, the section's body is the trimmed text of the lines up
\* to the next heading line or the end, a repeated key keeps the last body.
RECURSIVE SectionRule(_, _, _, _)
SectionRule(ls, out, key, body) ==
  LET closed == IF key = None THEN out
                ELSE DictSet(out, strip(key), strip(JoinLines(body)))
  IN IF ls = << >> THEN closed
     ELSE IF Head(ls).heading
          THEN SectionRule(Tail(ls), closed, Head(ls).text, << >>)
          ELSE SectionRule(Tail(ls), out, key, Append(body, Head(ls)))

Documents == UNION {[1..n -> LineShapes] : n \in 0..MaxLines}

InitMd ==
  /\ fn = "parse_md"
  /\ \E ls \in Documents, nl \in {<< >>, <<"\n">>} :
       /\ input = JoinLines(ls) \o nl
       /\ expect = SectionRule(ls, EmptyDict, None, << >>)
  /\ output = None
  /\ output2 = None
  /\ phase = "call"
  /\ UpsertIdle

CallParseMd ==
  /\ fn = "parse_md" /\ phase = "call"
  /\ output' = parse_md(input)
  /\ phase' = "returned"
  /\ UNCHANGED <<fn, input, expect, output2>>
  /\ UNCHANGED upsertVars

NextMd == CallParseMd

SpecMd == InitMd /\ [][NextMd]_vars

\* C10: for every document, parse_md returns the map of the section rule:
\* every heading line opens a section keyed by its trimmed text, whose body
\* is the trimmed text up to the next heading line or the end of the
\* document (also when that body is empty and when the heading is the last
\* line); no heading line gives the empty map; a repeated heading keeps the
\* last occurrence.
C10_ParseMdFollowsSectionRule ==
  (fn = "parse_md" /\ phase = "returned") => output = expect

(***************************************************************************)
(* Harness for the field builder                                           *)
(***************************************************************************)
\* The dict of the pairs <<key, value>> whose value is not None.
MkDict(ps) ==
  [k \in {ps[i][1] : i \in {j \in 1..Len(ps) : ps[j][2] # None}} |->
     ps[CHOOSE i \in 1..Len(ps) : ps[i][1] = k][2]]

K_OTHER == <<"k">>

\* Values offered for each key of the flat input map (None: key absent).
InTitles == {None, << >>, <<"T">>, <<" ","T">>}
InIssueTitles == {None, <<"U">>}
InPris == {None, << >>, <<" ">>, <<"h","i","g","h">>, P1, <<" ","P","1">>, <<"z","z">>}
InTypes == {None, <<" ">>, <<"b","u","g">>, T_BUG, <<"F","o","o">>, <<"f","o","o">>}
InBugSrcs == {None, << >>, <<"s">>, <<"s"," ">>}
InUrls == {None, <<"w">>}
InOthers == {None, <<"z">>}
ArgUrls == {<< >>, <<"u">>, <<" ","u">>}

\* One section of an issue body, compact or in the layout of an issue form.
Section(form, name, value) ==
  IF value = None THEN << >>
  ELSE IF form THEN <<"#","#","#"," ">> \o name \o <<"\n","\n">> \o value \o <<"\n","\n">>
  ELSE <<"#","#"," ">> \o name \o <<"\n">> \o value \o <<"\n">>

BodyTitles == {None, << >>, <<"L"," ","c">>}
BodyPris == {None, << >>, P1, <<"l","o","w">>, <<"z","z">>}
BodyTypes == {None, << >>, <<"b","u","g">>, <<"f","o","o">>}
BodyBugSrcs == {None, << >>, <<"s">>}
IssueTitles == {None, <<"F">>}
IssueUrls == {None, << >>, <<"u">>}

\* The issue objects: body, title and html_url each a str, null or absent
\* (dict.get gives None for both).
Issues ==
  {MkDict(<< <<K_BODY, Section(form, F_TITLE, t) \o Section(form, F_PRI, p)
                       \o Section(form, K_OTHER, o) \o Section(form, F_TYPE, y)
                       \o Section(form, F_BUGSRC, b)>>,
             <<K_TITLE, it>>, <<K_HTML_URL, u>> >>) :
     form \in BOOLEAN, t \in BodyTitles, p \in BodyPris, o \in InOthers,
     y \in BodyTypes, b \in BodyBugSrcs, it \in IssueTitles, u \in IssueUrls}

\* The event objects: None, {}, {"issue": null}, {"issue": {...}}.
Events ==
  {NoneDict, EmptyDict} \cup {[k \in {K_ISSUE} |-> i] : i \in {NoneDict} \cup Issues}

InitBuild ==
  /\ fn \in {"build_from_issue", "build_from_inputs"}
  /\ IF fn = "build_from_issue"
     THEN \E evt \in Events : input = [evt |-> evt]
     ELSE \E t \in InTitles, it \in InIssueTitles, p \in InPris, y \in InTypes,
             b \in InBugSrcs, w \in InUrls, o \in InOthers, u \in ArgUrls :
            input = [inputs |-> MkDict(<< <<F_TITLE, t>>, <<F_ISSUE_TITLE, it>>,
                                          <<F_PRI, p>>, <<F_TYPE, y>>, <<F_BUGSRC, b>>,
                                          <<F_URL, w>>, <<K_OTHER, o>> >>),
                     issue_url |-> u]
  /\ expect = None
  /\ output = None
  /\ output2 = None
  /\ phase = "call"
  /\ UpsertIdle

CallBuildFromIssue ==
  /\ fn = "build_from_issue" /\ phase = "call"
  /\ output' = build_from_issue(input.evt)
  /\ phase' = "returned"
  /\ UNCHANGED <<fn, input, expect, output2>>
  /\ UNCHANGED upsertVars

CallBuildFromInputs ==
  /\ fn = "build_from_inputs" /\ phase = "call"
  /\ output' = build_from_inputs(input.inputs, input.issue_url)
  /\ phase' = "returned"
  /\ UNCHANGED <<fn, input, expect, output2>>
  /\ UNCHANGED upsertVars

NextBuild == CallBuildFromIssue \/ CallBuildFromInputs

SpecBuild == InitBuild /\ [][NextBuild]_vars

\* C6: whatever the input, the keys of the returned field set are among the
\* five allow-listed names, and priority, requirement type and bug source
\* are present only with a non-empty value.
C6_KeysInAllowList ==
  phase = "returned" =>
    /\ DOMAIN output \subseteq FN
    /\ \A k \in DOMAIN output \cap {F_PRI, F_TYPE, F_BUGSRC} :
         output[k] # None /\ output[k] # << >>

\* C6 witness: a flat map with a key outside the allow-list and a blank
\* priority was built: both are gone, the requirement type is kept.
C6_Witness ==
  /\ fn = "build_from_inputs" /\ phase = "returned"
  /\ K_OTHER \in DOMAIN input.inputs
  /\ F_PRI \in DOMAIN input.inputs /\ input.inputs[F_PRI] = <<" ">>
  /\ F_PRI \notin DOMAIN output
  /\ F_TYPE \in DOMAIN output

\* The flat map's keys are all allow-listed, with non-empty values, and the
\* explicit URL is non-empty.
RoundTripInput ==
  /\ fn = "build_from_inputs"
  /\ DOMAIN input.inputs \subseteq FN
  /\ \A k \in DOMAIN input.inputs : input.inputs[k] # << >>
  /\ input.issue_url # << >>

\* No whitespace at either end.
IsTrimmed(v) == v = << >> \/ (v[1] \notin WS /\ v[Len(v)] \notin WS)

\* A value the normalizer leaves as it is: a canonical value, or a token
\* that is no alias (for the type, spelled capitalized).
IsNormalPri(v) == v \in {P0, P1, P2, P3} \/ upper(v) \notin DOMAIN PRIORITY_ALIASES
IsNormalType(v) ==
  \/ v \in {T_BUG, T_FEATURE, T_ENHANCEMENT}
  \/ lower(v) \notin DOMAIN TYPE_ALIASES /\ v = capitalize(v)

\* C7 (as stated): for every flat map of allow-listed keys with non-empty
\* values and every non-empty explicit URL, the returned field set equals
\* the map with IssueURL set to the explicit URL.
C7_RoundTripAnyValues ==
  (phase = "returned" /\ RoundTripInput) =>
    output = DictSet(input.inputs, F_URL, input.issue_url)

\* C7 (amended): the round trip holds when moreover the map contains the
\* title, every value and the URL are free of surrounding whitespace, and
\* the priority and the requirement type are already in normalized form.
C7_RoundTripNormalValues ==
  (/\ phase = "returned" /\ RoundTripInput
   /\ F_TITLE \in DOMAIN input.inputs
   /\ \A k \in DOMAIN input.inputs : IsTrimmed(input.inputs[k])
   /\ IsTrimmed(input.issue_url)
   /\ F_PRI \in DOMAIN input.inputs => IsNormalPri(input.inputs[F_PRI])
   /\ F_TYPE \in DOMAIN input.inputs => IsNormalType(input.inputs[F_TYPE]))
  => output = DictSet(input.inputs, F_URL, input.issue_url)

\* C7 witness: a full map of normalized values came back unchanged, its
\* IssueURL replaced by the explicit URL.
C7_Witness ==
  /\ phase = "returned" /\ RoundTripInput
  /\ DOMAIN input.inputs = FN
  /\ input.inputs[F_PRI] = P1 /\ input.inputs[F_TYPE] = <<"F","o","o">>
  /\ input.inputs[F_URL] # input.issue_url
  /\ IsTrimmed(input.issue_url) /\ IsTrimmed(input.inputs[F_TITLE])
  /\ IsTrimmed(input.inputs[F_BUGSRC])
  /\ output = DictSet(input.inputs, F_URL, input.issue_url)

(***************************************************************************)
(* Record locator and upsert executor, against the remote table.           *)
(* upsert makes two remote calls, the search and one write; each is one    *)
(* step, so that invocations of several processes interleave between them. *)
(***************************************************************************)
\* Bound: the number of invocations of upsert in a behaviour.
MaxRuns == 3

\* The concurrent invokers (workflow runs) sharing the table.
Procs == {"run1", "run2"}

Digits == <<"1","2","3","4","5","6","7","8","9">>

\* The opaque identifier the table gives its n-th record.
RecordId(n) == <<"r", Digits[n]>>

U1 == <<"u","1">>
U2 == <<"u","2">>

\* Field sets upsert is called with: without IssueURL, with an empty one,
\* and with two titles for each of two URLs.
FieldSets ==
  {MkDict(<< <<F_TITLE, <<"A">> >>, <<F_URL, u>> >>) : u \in {None, << >>}} \cup
  {MkDict(<< <<F_TITLE, t>>, <<F_URL, u>> >>) : t \in {<<"A">>, <<"B">>}, u \in {U1, U2}}

\* Response bodies: r.json() succeeds or raises; data.get("code") is an
\* integer or None (field absent or null); a search response carries the
\* record identifiers of data.items.
RespOk(items) == [json |-> TRUE, hasCode |-> TRUE, code |-> 0, items |-> items]
RespNoCode == [json |-> TRUE, hasCode |-> FALSE, code |-> 0, items |-> << >>]
RespError == [json |-> TRUE, hasCode |-> TRUE, code |-> 1, items |-> << >>]
RespGarbage == [json |-> FALSE, hasCode |-> FALSE, code |-> 0, items |-> << >>]

\* The table's search: the records whose IssueURL equals the filter value,
\* one page of page_size records.
ServerSearch(st, params) ==
  LET hits == SelectSeq(st, LAMBDA r : DictGet(r.fields, F_URL, None) = params.filter)
  IN RespOk([i \in 1..(IF Len(hits) < params.page_size THEN Len(hits)
                       ELSE params.page_size) |-> hits[i].id])

\* The table's create: a new record holding the payload's fields.
ServerCreate(st, payload) ==
  Append(st, [id |-> RecordId(Len(st) + 1), fields |-> payload.fields])

\* The table's update: the payload's fields merged into the record.
ServerUpdate(st, id, payload) ==
  [i \in 1..Len(st) |->
     IF st[i].id = id
     THEN [st[i] EXCEPT !.fields =
             [k \in DOMAIN st[i].fields \cup DOMAIN payload.fields |->
                IF k \in DOMAIN payload.fields THEN payload.fields[k]
                ELSE st[i].fields[k]]]
     ELSE st[i]]

\* A plausible slip: only an absent key is refused, an empty URL goes on.
KeyMissing_absentOnly(f) == F_URL \notin DOMAIN f

\* iu = fields.get("IssueURL"); if not iu: raise ValueError
KeyMissing(f) == ~Truthy(DictGet(f, F_URL, None))

\* A plausible slip: the filter does not use the URL searched for.
SearchParams_fixedFilter(issue_url) == [page_size |-> 1, filter |-> << >>]

\* search_record: params = {"page_size": 1, "filter": 'IssueURL = "<url>"'}
SearchParams(issue_url) == [page_size |-> 1, filter |-> issue_url]

\* search_record: the first item's record_id, or None.  The status code of
\* the response is not read.
SearchResult(data) ==
  IF data.items # << >> THEN data.items[1] ELSE None

\* A plausible slip: the two branches of the write are swapped.
WriteCall_swapped(rec_id) ==
  IF Truthy(rec_id) THEN [method |-> "POST", target |-> None]
  ELSE [method |-> "PATCH", target |-> rec_id]

\* upsert: PATCH .../records/<rec_id> when a record was found, else POST
\* .../records.
WriteCall(rec_id) ==
  IF Truthy(rec_id) THEN [method |-> "PATCH", target |-> rec_id]
  ELSE [method |-> "POST", target |-> None]

\* A plausible slip: the key field is left out of the payload.
Payload_withoutKey(f) == [fields |-> [k \in DOMAIN f \ {F_URL} |-> f[k]]]

\* payload = {"fields": fields}
Payload(f) == [fields |-> f]

\* A plausible slip: a response without a code counts as a failure.
Validate_codeRequired(data) ==
  IF ~data.json THEN "RuntimeError"
  ELSE IF ~(data.hasCode /\ data.code = 0) THEN "RuntimeError"
  ELSE "ok"

\* upsert: r.json() raising and a code outside (0, None) raise RuntimeError.
Validate(data) ==
  IF ~data.json THEN "RuntimeError"
  ELSE IF data.hasCode /\ data.code # 0 THEN "RuntimeError"
  ELSE "ok"

IsWrite(c) == c.method \in {"POST", "PATCH"}

Init ==
  /\ fn = "upsert" /\ input = None /\ expect = None
  /\ output = None /\ output2 = None /\ phase = "idle"
  /\ store = << >>
  /\ pc = [p \in Procs |-> "idle"]
  /\ fields = [p \in Procs |-> EmptyDict]
  /\ recId = [p \in Procs |-> None]
  /\ calls = [p \in Procs |-> << >>]
  /\ resp = [p \in Procs |-> << >>]
  /\ result = [p \in Procs |-> "none"]
  /\ runs = 0
  /\ history = [overlapped |-> FALSE, faulty |-> FALSE, writes |-> << >>]

\* upsert is entered: the key check.
Begin(p) ==
  /\ pc[p] \in {"idle", "done", "failed"}
  /\ runs < MaxRuns
  /\ runs' = runs + 1
  /\ \E f \in FieldSets :
       /\ fields' = [fields EXCEPT ![p] = f]
       /\ IF KeyMissing(f)
          THEN /\ pc' = [pc EXCEPT ![p] = "failed"]
               /\ result' = [result EXCEPT ![p] = "ValueError"]
          ELSE /\ pc' = [pc EXCEPT ![p] = "search"]
               /\ result' = [result EXCEPT ![p] = "none"]
  /\ recId' = [recId EXCEPT ![p] = None]
  /\ calls' = [calls EXCEPT ![p] = << >>]
  /\ resp' = [resp EXCEPT ![p] = << >>]
  /\ history' = [history EXCEPT !.overlapped =
                   @ \/ \E q \in Procs \ {p} : pc[q] \in {"search", "write"}]
  /\ UNCHANGED store
  /\ UNCHANGED pureVars

\* search_record: the GET and its response (answered by the table, refused
\* with a non-zero code, or not parseable).
Search(p) ==
  /\ pc[p] = "search"
  /\ LET params == SearchParams(fields[p][F_URL])
     IN \E data \in {ServerSearch(store, params), RespError, RespGarbage} :
          /\ calls' = [calls EXCEPT ![p] =
                         Append(@, [method |-> "GET", target |-> params.filter])]
          /\ resp' = [resp EXCEPT ![p] = Append(@, data)]
          /\ IF ~data.json
             THEN /\ pc' = [pc EXCEPT ![p] = "failed"]
                  /\ result' = [result EXCEPT ![p] = "Exception"]
                  /\ UNCHANGED recId
             ELSE /\ pc' = [pc EXCEPT ![p] = "write"]
                  /\ recId' = [recId EXCEPT ![p] = SearchResult(data)]
                  /\ UNCHANGED result
          /\ history' = [history EXCEPT !.faulty = @ \/ ~(data.json /\ data.code = 0)]
  /\ UNCHANGED <<store, fields, runs>>
  /\ UNCHANGED pureVars

\* What the table does with a write call and what it answers: applied with
\* code 0 or with a body without code, refused with a non-zero code, or an
\* unparseable body (the write applied or not).
ServerWrite(st, call, payload) ==
  LET known == call.method = "POST" \/ \E i \in 1..Len(st) : st[i].id = call.target
      applied == IF call.method = "POST" THEN ServerCreate(st, payload)
                 ELSE ServerUpdate(st, call.target, payload)
  IN IF ~known THEN {[store |-> st, data |-> RespError]}
     ELSE {[store |-> applied, data |-> RespOk(<< >>)],
           [store |-> applied, data |-> RespNoCode],
           [store |-> st, data |-> RespError],
           [store |-> st, data |-> RespGarbage],
           [store |-> applied, data |-> RespGarbage]}

\* upsert: the one write and the validation of its response.
Write(p) ==
  /\ pc[p] = "write"
  /\ LET call == WriteCall(recId[p])
         payload == Payload(fields[p])
     IN \E o \in ServerWrite(store, call, payload) :
          /\ store' = o.store
          /\ calls' = [calls EXCEPT ![p] = Append(@, call)]
          /\ resp' = [resp EXCEPT ![p] = Append(@, o.data)]
          /\ result' = [result EXCEPT ![p] = Validate(o.data)]
          /\ pc' = [pc EXCEPT ![p] = IF Validate(o.data) = "ok" THEN "done" ELSE "failed"]
          /\ history' =
               [history EXCEPT
                  !.faulty = @ \/ o.data # RespOk(<< >>),
                  !.writes = IF o.store = store THEN @
                             ELSE Append(@, [url |-> fields[p][F_URL],
                                             op |-> call.method,
                                             id |-> IF call.method = "POST"
                                                    THEN o.store[Len(o.store)].id
                                                    ELSE call.target])]
  /\ UNCHANGED <<fields, recId, runs>>
  /\ UNCHANGED pureVars

Next == \E p \in Procs : Begin(p) \/ Search(p) \/ Write(p)

Spec == Init /\ [][Next]_vars

(***************************************************************************)
(* Properties of the upsert executor                                       *)
(***************************************************************************)
Writes(p) == SelectSeq(calls[p], IsWrite)

\* The search of p's invocation returned (its response was parsed).
SearchReturned(p) == Len(resp[p]) >= 1 /\ resp[p][1].json

\* p's invocation is over, by return or by exception.
Ended(p) == pc[p] \in {"done", "failed"}

\* The number of records of the table whose IssueURL is u.
Count(u) ==
  Cardinality({i \in 1..Len(store) : DictGet(store[i].fields, F_URL, None) = u})

\* C1: an invocation never issues more than one write; once its search has
\* returned and it is over, it has issued exactly one: a create (POST) and
\* no update when the search returned no identifier, an update (PATCH) of
\* the identifier returned and no create otherwise.
C1_OneCreateOrOneUpdate ==
  \A p \in Procs :
    /\ Len(Writes(p)) <= 1
    /\ (Ended(p) /\ SearchReturned(p)) =>
         /\ Len(Writes(p)) = 1
         /\ recId[p] = None => Writes(p)[1] = [method |-> "POST", target |-> None]
         /\ recId[p] # None => Writes(p)[1] = [method |-> "PATCH", target |-> recId[p]]

\* C1 witness: one invocation has created, another has updated that record.
C1_Witness ==
  \E p, q \in Procs :
    /\ pc[p] = "done" /\ pc[q] = "done"
    /\ recId[p] = None /\ Writes(p) = <<[method |-> "POST", target |-> None]>>
    /\ recId[q] = RecordId(1)
    /\ Writes(q) = <<[method |-> "PATCH", target |-> RecordId(1)]>>

\* C2: an invocation whose field set has no IssueURL (absent or empty) has
\* failed with the key-missing error and has issued no remote call.
C2_KeyMissingBeforeAnyCall ==
  \A p \in Procs :
    (pc[p] # "idle" /\ (F_URL \notin DOMAIN fields[p] \/ fields[p][F_URL] = << >>)) =>
      /\ pc[p] = "failed" /\ result[p] = "ValueError"
      /\ calls[p] = << >> /\ resp[p] = << >>

\* C2 witness: an invocation with an empty IssueURL failed while the table
\* already held a record.
C2_Witness ==
  \E p \in Procs :
    /\ F_URL \in DOMAIN fields[p] /\ fields[p][F_URL] = << >>
    /\ result[p] = "ValueError" /\ calls[p] = << >>
    /\ Len(store) = 1

\* C3: when the search response carries a non-zero status code, the
\* invocation fails and issues no create and no update.
C3_FailedSearchAbortsBeforeWrite ==
  \A p \in Procs :
    (Len(resp[p]) >= 1 /\ resp[p][1].json /\ resp[p][1].hasCode /\ resp[p][1].code # 0) =>
      /\ Writes(p) = << >>
      /\ pc[p] # "done"

WritesFor(u) == SelectSeq(history.writes, LAMBDA w : w.url = u)

\* C4: when the invocations ran one after another and every remote call
\* succeeded, then for each IssueURL written so far the table holds exactly
\* one record: the first write created it and every later write updated
\* that same record.
C4_SequentialRunsKeepOneRecord ==
  (~history.overlapped /\ ~history.faulty) =>
    \A u \in {U1, U2} :
      LET ws == WritesFor(u)
      IN ws # << >> =>
           /\ ws[1].op = "POST"
           /\ \A i \in 2..Len(ws) : ws[i].op = "PATCH" /\ ws[i].id = ws[1].id
           /\ Count(u) = 1

\* C4 witness: three successive runs for one URL, a create and two updates.
C4_Witness ==
  /\ ~history.overlapped /\ ~history.faulty
  /\ Len(WritesFor(U1)) = 3
  /\ Count(U1) = 1
  /\ \A p \in Procs : pc[p] \in {"idle", "done"}

\* Both invocations are over with success, for the same IssueURL, each
\* after a search that found nothing.
BothCreated(p, q) ==
  /\ p # q
  /\ pc[p] = "done" /\ pc[q] = "done"
  /\ fields[p][F_URL] = fields[q][F_URL]
  /\ \A r \in {p, q} :
       /\ recId[r] = None
       /\ \A i \in 1..Len(resp[r]) : resp[r][i].json /\ resp[r][i].code = 0

\* C5: two invocations for the same IssueURL that both searched before
\* either wrote and both found nothing both create, and the table then
\* holds two records with that IssueURL.
C5_RaceLeavesTwoRecords ==
  \A p, q \in Procs :
    BothCreated(p, q) =>
      /\ Writes(p) = <<[method |-> "POST", target |-> None]>>
      /\ Writes(q) = <<[method |-> "POST", target |-> None]>>
      /\ Count(fields[p][F_URL]) >= 2

\* C5 witness: the duplicate is there after two overlapping invocations.
C5_Witness ==
  /\ history.overlapped
  /\ BothCreated("run1", "run2")
  /\ Len(store) = 2
  /\ store[1].fields[F_URL] = U1 /\ store[2].fields[F_URL] = U1

\* The write of p's invocation has been answered.
WriteAnswered(p) == Len(resp[p]) = 2

\* C9: once the write is answered, upsert reports failure exactly when the
\* body is unparseable or carries a non-zero code, and success exactly when
\* the code is zero or absent; after the answer the invocation is over, with
\* the search and that one write as its only calls.
C9_WriteValidation ==
  \A p \in Procs :
    WriteAnswered(p) =>
      LET d == resp[p][2]
      IN /\ (result[p] = "RuntimeError" /\ pc[p] = "failed") <=>
              (~d.json \/ (d.hasCode /\ d.code # 0))
         /\ (result[p] = "ok" /\ pc[p] = "done") <=>
              (d.json /\ (~d.hasCode \/ d.code = 0))
         /\ Ended(p)
         /\ Len(calls[p]) = 2 /\ Len(Writes(p)) = 1

\* C9 witness: one write was refused with a non-zero code, another was
\* answered without a code and counts as a success.
C9_Witness ==
  \E p, q \in Procs :
    /\ WriteAnswered(p) /\ resp[p][2] = RespError /\ result[p] = "RuntimeError"
    /\ WriteAnswered(q) /\ resp[q][2] = RespNoCode /\ result[q] = "ok"

====
